---- MODULE Spec2Model ----
(***************************************************************************)
(* Case orchestration of RAG4Test: RAG_pipeline.py main() with its         *)
(* progress / counter persistence, the semantic cache                      *)
(* (Agent/generated_memory.py), the per-case MemoryState and the           *)
(* reasoning / search agents (Agent/react_agent.py).                       *)
(*                                                                         *)
(* Python str values are sequences of one-character strings, so that       *)
(* lower(), strip(), split() and the `in` substring test are computed.     *)
(* Python None is the distinguished value None.  Similarities and          *)
(* distances are integers in hundredths.  Indices are 0-based as in the    *)
(* source (data_lines, retrieved_list, filtered).                          *)
(***************************************************************************)
EXTENDS Integers, Sequences, FiniteSets, TLC

\* ------------------------------------------------------------------ bounds
\* number of lines of retrieved_feedbacks.jsonl
NumCases == 2

\* ------------------------------------------------------- python str values
None == <<"None">>

EmptyStr == <<>>

\* truthiness of an Optional[str]: None and "" are falsy
Truthy(s) == s # None /\ s # EmptyStr

\* text[i:] for a 1-based position
Tail_from(s, i) == SubSeq(s, i, Len(s))

\* smallest 1-based position at which sub occurs in s, 0 when absent
Find(s, sub) ==
    LET starts == {i \in 1..(Len(s) - Len(sub) + 1) : SubSeq(s, i, i + Len(sub) - 1) = sub}
    IN  IF starts = {} THEN 0 ELSE CHOOSE i \in starts : \A j \in starts : i <= j

\* python: sub in s
Contains(s, sub) == Find(s, sub) # 0

UpperChars == <<"A","B","C","D","E","F","G","H","I","J","K","L","M","N","O","P","Q","R","S","T","U","V","W","X","Y","Z">>

LowerChars == <<"a","b","c","d","e","f","g","h","i","j","k","l","m","n","o","p","q","r","s","t","u","v","w","x","y","z">>

lower_char(c) ==
    IF \E k \in 1..26 : UpperChars[k] = c
    THEN LowerChars[CHOOSE k \in 1..26 : UpperChars[k] = c]
    ELSE c

\* python: s.lower()
lower(s) == [i \in 1..Len(s) |-> lower_char(s[i])]

IsSpace(c) == c \in {" ", "\n", "\t"}

\* python: s.strip()
strip(s) ==
    LET keep == {i \in 1..Len(s) : ~IsSpace(s[i])}
    IN  IF keep = {} THEN EmptyStr
        ELSE SubSeq(s, CHOOSE i \in keep : \A j \in keep : i <= j,
                       CHOOSE i \in keep : \A j \in keep : i >= j)

\* python: s.split(sep, 1)[-1]
split_last(s, sep) ==
    LET p == Find(s, sep)
    IN  IF p = 0 THEN s ELSE Tail_from(s, p + Len(sep))

\* python dict as a set of <<key, value>> pairs; d.get(key, default)
dict_get(d, key, default) ==
    IF \E p \in d : p[1] = key
    THEN (CHOOSE p \in d : p[1] = key)[2]
    ELSE default

\* ------------------------------------------------------------- input file
Feedbacks == << <<"a">>, <<"c">>, <<"b">> >>

Docs == << <<"x">>, <<"y">> >>

\* line i of retrieved_feedbacks.jsonl (DATA_PATH), i = 0 .. NumCases-1:
\* cases cycle over three feedback texts and over 2, 1, 0 candidates
data_lines ==
    [i \in 0..(NumCases - 1) |->
        [user_feedback  |-> Feedbacks[(i % 3) + 1],
         retrieved_list |-> SubSeq(Docs, 1, 2 - (i % 3))]]

\* ------------------------------------------------- progress / counter files
\* a file that does not exist has exists = FALSE
NoProgressFile == [exists |-> FALSE, last_index |-> -1]

NoCounterFile == [exists |-> FALSE, case_count |-> 0, reuse_count |-> 0, history |-> <<>>]

\* a load_progress that forgets the record
load_progress_restart(file) == -1

load_progress(file) == IF file.exists THEN file.last_index ELSE -1

\* a save_progress that records the last finished index instead of the fetched one
save_progress_previous(idx) == [exists |-> TRUE, last_index |-> idx - 1]

save_progress(idx) == [exists |-> TRUE, last_index |-> idx]

load_counters(file) ==
    IF ~file.exists
    THEN [case_count |-> 0, reuse_count |-> 0, history |-> <<>>]
    ELSE [case_count |-> file.case_count, reuse_count |-> file.reuse_count,
          history |-> file.history]

Max(a, b) == IF a >= b THEN a ELSE b

\* round(reuse / max(1, case), 4) in ten-thousandths; no quotient of the
\* counts reached here lies on a rounding tie
reuse_rate(reuse, case) ==
    LET d == Max(1, case) IN (2 * 10000 * reuse + d) \div (2 * d)

\* the snapshot appended by save_counters (its wall-clock timestamp is left out)
snapshot(counters) ==
    [case_count  |-> counters.case_count,
     reuse_count |-> counters.reuse_count,
     reuse_rate  |-> reuse_rate(counters.reuse_count, counters.case_count)]

\* counters["history"].append(...) mutates the caller's dict
append_history(counters) ==
    [counters EXCEPT !.history = Append(@, snapshot(counters))]

\* a save_counters that keeps only the new snapshot in the file
save_counters_overwrite(counters) ==
    [exists |-> TRUE, case_count |-> counters.case_count,
     reuse_count |-> counters.reuse_count, history |-> <<snapshot(counters)>>]

\* the file content written by save_counters(counters)
save_counters(counters) ==
    LET c == append_history(counters)
    IN  [exists |-> TRUE, case_count |-> c.case_count,
         reuse_count |-> c.reuse_count, history |-> c.history]

\* -------------------------------------------------------- per-case memory
\* MemoryState(feedback=...)
MemoryState(feedback) ==
    [feedback |-> feedback, collected |-> <<>>, decision |-> None, bug_report |-> None]

\* an add_evidence that inserts at the front
add_evidence_front(state, doc) == [state EXCEPT !.collected = <<doc>> \o @]

add_evidence(state, doc) == [state EXCEPT !.collected = Append(@, doc)]

set_decision(state, decision) == [state EXCEPT !.decision = decision]

set_bug_report(state, report) == [state EXCEPT !.bug_report = report]

\* the line written to logs/generated_reports.jsonl
report_line(state) ==
    [feedback |-> state.feedback, collected |-> state.collected,
     decision |-> state.decision, bug_report |-> state.bug_report]

\* ---------------------------------------------------------- semantic cache
\* GeneratedReportMemory.__init__ default
similarity_threshold == 80

\* top_k passed by main() to search_reports
top_k == 3

Min(a, b) == IF a <= b THEN a ELSE b

\* the embedding distance (hundredths) the vector store reports between a
\* query and a stored feedback text: 0 for the same text, a fixed value per
\* pair of texts otherwise
Distance(q, t) ==
    IF q = t THEN 0
    ELSE IF {q, t} = {<<"a">>, <<"b">>} THEN 130
    ELSE IF {q, t} = {<<"a">>, <<"c">>} THEN 5
    ELSE IF {q, t} = {<<"b">>, <<"c">>} THEN 12
    ELSE 200

\* an add_report without the default metadata
add_report_bare(st, feedback, bug_report, metadata) ==
    Append(st, [page_content |-> feedback, metadata |-> metadata])

\* add_report(feedback, bug_report, metadata): metadata is a dict (set of
\* pairs), None and {} being the empty set
add_report(st, feedback, bug_report, metadata) ==
    Append(st, [page_content |-> feedback,
                metadata |-> IF metadata # {} THEN metadata
                             ELSE {<<"bug_report", bug_report>>}])

\* store.similarity_search_with_score(feedback, k): the k nearest entries,
\* nearest first, entries at the same distance in insertion order
similarity_search_with_score(st, feedback, k) ==
    LET d(i)    == Distance(feedback, st[i].page_content)
        rank(i) == Cardinality({j \in 1..Len(st) : d(j) < d(i) \/ (d(j) = d(i) /\ j < i)})
        at(r)   == CHOOSE i \in 1..Len(st) : rank(i) = r - 1
    IN  [r \in 1..Min(k, Len(st)) |-> [doc |-> st[at(r)], distance |-> d(at(r))]]

\* similarity = 1 - min(distance, 1)
converted(results) ==
    [r \in 1..Len(results) |->
        [doc |-> results[r].doc, sim |-> 100 - Min(results[r].distance, 100)]]

filtered_of(conv) == SelectSeq(conv, LAMBDA c : c.sim >= similarity_threshold)

\* JSON numbers and strings inside matched_indices
JInt(n) == <<"int", n>>

JStr == <<"str", 0>>

NoDoc == [page_content |-> None, metadata |-> {}]

\* search_reports returning None
NoReuse == [hit |-> FALSE, report |-> NoDoc, similarity |-> 0, rationale |-> None]

\* responses of the verification oracle: llm.invoke raising, text that is
\* not JSON, a JSON list, or a JSON object {reuse, matched_indices, rationale}
VerifyResponses ==
    {[kind |-> k, reuse |-> FALSE, matched_indices |-> <<>>, rationale |-> <<"v">>] :
        k \in {"raise", "nonjson", "list"}}
    \cup
    {[kind |-> "dict", reuse |-> r, matched_indices |-> m, rationale |-> <<"v">>] :
        r \in BOOLEAN,
        m \in {<<>>, <<JInt(1)>>, <<JInt(2)>>, <<JInt(0), JInt(2)>>, <<JInt(4)>>, <<JStr>>}}

\* the rationale text of line 70, "Direct similarity reuse (no LLM check)", by
\* its first word
S_direct_rationale == <<"D","i","r","e","c","t">>

\* search_reports(feedback, top_k, verify_llm) with the oracle's response:
\* raised = an exception leaves the call, asked = llm.invoke was called,
\* value = the returned decision
search_reports(st, feedback, k, verify_llm, response) ==
    LET results  == similarity_search_with_score(st, feedback, k)
        filtered == filtered_of(converted(results))
        ret(v)   == [raised |-> FALSE, asked |-> FALSE, value |-> v]
        llm(v)   == [raised |-> FALSE, asked |-> TRUE, value |-> v]
        raise    == [raised |-> TRUE, asked |-> TRUE, value |-> NoReuse]
        \* json.loads failing gives the default verdict
        result   == IF response.kind = "nonjson"
                    THEN [response EXCEPT !.reuse = FALSE, !.matched_indices = <<>>]
                    ELSE response
        valid    == SelectSeq(result.matched_indices,
                              LAMBDA e : 0 <= e[2] - 1 /\ e[2] - 1 < Len(filtered))
        matched  == [i \in 1..Len(valid) |-> filtered[valid[i][2]].doc]
    IN  IF Len(results) = 0 THEN ret(NoReuse)
        ELSE IF Len(filtered) = 0 THEN ret(NoReuse)
        ELSE IF ~verify_llm
             THEN ret([hit |-> TRUE, report |-> filtered[1].doc,
                       similarity |-> filtered[1].sim,
                       rationale |-> S_direct_rationale])
        ELSE IF response.kind = "raise" THEN raise
        \* result.get on a list: AttributeError
        ELSE IF result.kind = "list" THEN raise
        ELSE IF ~result.reuse THEN llm(NoReuse)
        \* idx - 1 on a str: TypeError
        ELSE IF \E i \in 1..Len(result.matched_indices) : result.matched_indices[i][1] # "int"
             THEN raise
        ELSE IF Len(matched) = 0 THEN llm(NoReuse)
        ELSE llm([hit |-> TRUE, report |-> matched[1],
                  similarity |-> filtered[1].sim,
                  rationale |-> result.rationale])

\* ------------------------------------------------------------ judge oracle
\* responses of judgement_llm: text that is not JSON, JSON that is not an
\* object, or a JSON object that may lack either field
JudgeResponses ==
    {[kind |-> k, has_relevant |-> FALSE, relevant |-> FALSE,
      has_sufficient |-> FALSE, sufficient |-> FALSE] : k \in {"nonjson", "nondict"}}
    \cup
    {[kind |-> "dict", has_relevant |-> TRUE, relevant |-> r,
      has_sufficient |-> TRUE, sufficient |-> s] : r \in BOOLEAN, s \in BOOLEAN}
    \cup
    {[kind |-> "dict", has_relevant |-> FALSE, relevant |-> FALSE,
      has_sufficient |-> TRUE, sufficient |-> TRUE]}
    \cup
    {[kind |-> "dict", has_relevant |-> TRUE, relevant |-> r,
      has_sufficient |-> FALSE, sufficient |-> FALSE] : r \in BOOLEAN}

\* evaluate_candidate: json.loads(response), a JSONDecodeError giving the
\* default {relevant: False, sufficient: False, reason: response}
evaluate_candidate(response) ==
    IF response.kind = "nonjson"
    THEN [kind |-> "dict", has_relevant |-> TRUE, relevant |-> FALSE,
          has_sufficient |-> TRUE, sufficient |-> FALSE]
    ELSE response

\* main()'s reading of the result: result["relevant"] and result["sufficient"],
\* then elif result["relevant"]; a subscript that fails raises
judge_branch(result) ==
    IF result.kind # "dict" THEN "raise"
    ELSE IF ~result.has_relevant THEN "raise"
    ELSE IF ~result.relevant THEN "irrelevant"
    ELSE IF ~result.has_sufficient THEN "raise"
    ELSE IF result.sufficient THEN "sufficient"
    ELSE "relevant"

\* -------------------------------------------------------- generator oracle
\* texts generate_bug_report may return
GeneratorResponses == {EmptyStr, <<"r">>}

\* ------------------------------------------------- reasoning / search agents
S_search == <<"s","e","a","r","c","h">>

S_generate == <<"g","e","n","e","r","a","t","e">>

S_store == <<"s","t","o","r","e">>

S_none == <<"n","o","n","e">>

S_final_answer_lower == <<"f","i","n","a","l"," ","a","n","s","w","e","r",":">>

S_Final_Answer == <<"F","i","n","a","l"," ","A","n","s","w","e","r",":">>

S_used_search == <<"\n","(","U","s","e","d"," ","o","n","l","i","n","e"," ","s","e","a","r","c","h"," ","s","u","m","m","a","r","y",")">>

S_search_insufficient == <<"\n","(","O","n","l","i","n","e"," ","s","e","a","r","c","h"," ","i","n","s","u","f","f","i","c","i","e","n","t",")">>

S_no_results == <<"N","o"," ","r","e","l","e","v","a","n","t"," ","o","n","l","i","n","e"," ","r","e","s","u","l","t","s"," ","f","o","u","n","d",".">>

S_nn == <<"\n", "\n">>

AgentDecision(action, result, rationale, combined_context, raw_results_count) ==
    [action |-> action, result |-> result, rationale |-> rationale,
     combined_context |-> combined_context, raw_results_count |-> raw_results_count]

\* what the search sub-pipeline meets: the number of unique web results, the
\* summary the LLM writes for them, and the relevance judge's answer (text
\* that is not JSON, JSON that is not an object, or an object whose action
\* and context may be missing = None)
SearchOutcomes ==
    {[results |-> 1, summary |-> <<"s">>, kind |-> k, action |-> None,
      context |-> None, rationale |-> <<"j">>] : k \in {"nonjson", "nondict"}}
    \cup
    {[results |-> 1, summary |-> <<"s">>, kind |-> "dict", action |-> a,
      context |-> None, rationale |-> <<"j">>] :
        a \in {S_store, None, <<"G","e","n","e","r","a","t","e">>}}
    \cup
    {[results |-> 1, summary |-> <<"s">>, kind |-> "dict", action |-> S_generate,
      context |-> <<"k">>, rationale |-> <<"j">>],
     [results |-> 0, summary |-> <<"s">>, kind |-> "dict", action |-> S_generate,
      context |-> None, rationale |-> <<"j">>]}

\* summarize_results: a fixed sentence when there are no results
summarize_results(o) == IF o.results = 0 THEN S_no_results ELSE o.summary

\* judge_relevance(feedback, summary)
judge_relevance(feedback, summary, o) ==
    IF o.kind = "dict"
    THEN AgentDecision(IF o.action = None THEN S_store ELSE o.action,
                       None,
                       o.rationale,
                       IF o.context = None THEN feedback \o S_nn \o summary ELSE o.context,
                       0)
    ELSE AgentDecision(S_store, None, o.rationale, feedback \o S_nn \o summary, 0)

\* online_search_agent(feedback)
online_search_agent(feedback, o) ==
    LET summary  == summarize_results(o)
        decision == judge_relevance(feedback, summary, o)
    IN  [decision EXCEPT !.raw_results_count = o.results, !.result = summary]

\* texts the reasoning LLM may answer
ReactResponses ==
    {<<"g","e","n","e","r","a","t","e"," ","s","e","a","r","c","h">>,
     <<"G","e","n","e","r","a","t","e">>,
     <<"F","i","n","a","l"," ","A","n","s","w","e","r",":"," ","g","e","n","e","r","a","t","e"," ">>,
     <<"u","n","s","u","r","e">>}

\* a react_reasoning that looks for "generate" before it looks for "search"
react_reasoning_generate_first(user_feedback, collected, response, o) ==
    LET lower_resp      == lower(response)
        search_decision == online_search_agent(user_feedback, o)
        final == IF Contains(lower_resp, S_final_answer_lower)
                 THEN strip(split_last(response, S_Final_Answer))
                 ELSE strip(response)
    IN  IF Contains(lower_resp, S_generate)
        THEN AgentDecision(S_generate, final, response, None, 0)
        ELSE IF Contains(lower_resp, S_search)
        THEN IF search_decision.action = S_generate
             THEN AgentDecision(S_generate, search_decision.combined_context,
                                response \o S_used_search,
                                search_decision.combined_context,
                                search_decision.raw_results_count)
             ELSE AgentDecision(S_store, None,
                                response \o S_search_insufficient,
                                search_decision.combined_context,
                                search_decision.raw_results_count)
        ELSE AgentDecision(S_none, None, response, None, 0)

\* react_reasoning(user_feedback, collected) for the LLM's response and, when
\* it runs, the search sub-pipeline's outcome
react_reasoning(user_feedback, collected, response, o) ==
    LET lower_resp      == lower(response)
        search_decision == online_search_agent(user_feedback, o)
        final == IF Contains(lower_resp, S_final_answer_lower)
                 THEN strip(split_last(response, S_Final_Answer))
                 ELSE strip(response)
    IN  IF Contains(lower_resp, S_search)
        THEN IF search_decision.action = S_generate
             THEN AgentDecision(S_generate, search_decision.combined_context,
                                response \o S_used_search,
                                search_decision.combined_context,
                                search_decision.raw_results_count)
             ELSE AgentDecision(S_store, None,
                                response \o S_search_insufficient,
                                search_decision.combined_context,
                                search_decision.raw_results_count)
        ELSE IF Contains(lower_resp, S_generate)
        THEN AgentDecision(S_generate, final, response, None, 0)
        ELSE AgentDecision(S_none, None, response, None, 0)

\* whether react_reasoning runs the search sub-pipeline for this response
react_searches(response) == Contains(lower(response), S_search)

\* ------------------------------------------------------------------- state
Workers == {1, 2}

VARIABLES
    progress_file,      \* logs/experiment_progress.json
    counter_file,       \* logs/reuse_counter.json
    store,              \* the Chroma collection "generated_reports"
    generated_reports,  \* lines of logs/generated_reports.jsonl
    stored_feedback,    \* lines of logs/stored_feedback.jsonl
    run,                \* per worker: position in main() and its locals
    processed,          \* case indices fetched at entry = data_lines[next_index], in order
    active,             \* the workers that run main()
    loop_i,             \* iterations the __main__ loop has started
    probe               \* a function under study: its arguments and what it returned

vars == <<progress_file, counter_file, store, generated_reports, stored_feedback,
          run, processed, active, loop_i, probe>>

\* a worker outside main(): pc is "idle" before the first call, "done" after a
\* return, "failed" after an exception or a kill.  The fields after decision
\* are records kept for the properties: terminal is the outcome the case has
\* reached, prev_abandoned the index the previous call had fetched when it was
\* abandoned before an outcome (-1 otherwise), *_before the files as they were
\* when the case was fetched, *_calls the oracle calls made for the case.
InitRun ==
    [pc |-> "idle", next_index |-> 0, claimed |-> FALSE,
     user_feedback |-> None, retrieved_list |-> <<>>,
     counters |-> [case_count |-> 0, reuse_count |-> 0, history |-> <<>>],
     reuse |-> NoReuse, state |-> MemoryState(None), idx |-> 0,
     decision |-> AgentDecision(None, None, None, None, 0),
     terminal |-> "NONE", prev_abandoned |-> -1,
     counter_before |-> NoCounterFile, store_before |-> <<>>,
     generated_before |-> <<>>, stored_before |-> <<>>,
     verify_calls |-> 0, judge_calls |-> <<>>, gen_calls |-> <<>>,
     react_calls |-> <<>>, search_calls |-> 0, search_summary |-> None]

Resting == {"idle", "done", "failed"}

\* no function is under study
NoProbe == [fn |-> "none"]

TerminalStates ==
    {"REUSED", "LOCAL_SUFFICIENT", "REASON_GENERATE", "SEARCH_GENERATE",
     "SEARCH_STORE", "REASON_NONE"}

Init ==
    /\ progress_file = NoProgressFile
    /\ counter_file = NoCounterFile
    /\ store = <<>>
    /\ generated_reports = <<>>
    /\ stored_feedback = <<>>
    /\ run = [w \in Workers |-> InitRun]
    /\ processed = <<>>
    /\ active = {1}
    /\ loop_i = 0
    /\ probe = NoProbe

Files == <<progress_file, counter_file, store, generated_reports, stored_feedback>>

\* what is left of a call of main() that ended by an exception: its locals
\* are gone; the index it worked on and what it had reached are recorded
failed(r) ==
    [InitRun EXCEPT !.pc = "failed", !.next_index = r.next_index, !.claimed = r.claimed,
                    !.terminal = r.terminal, !.counter_before = r.counter_before]

\* ----------------------------------------------------------------- main()
\* lines 64-70: read the input and the progress record
Begin(w) ==
    /\ run[w].pc \in Resting
    /\ run' = [run EXCEPT ![w] =
                 [InitRun EXCEPT !.pc = "begun",
                                 !.next_index = load_progress(progress_file) + 1,
                                 !.prev_abandoned =
                                     IF run[w].pc = "failed" /\ run[w].claimed
                                        /\ run[w].terminal = "NONE"
                                     THEN run[w].next_index ELSE -1]]
    /\ UNCHANGED <<Files, processed, active>>

\* a NothingLeft that still records a snapshot of the counters
NothingLeft_snapshot(w) ==
    /\ run[w].pc = "begun"
    /\ run[w].next_index >= NumCases
    /\ run' = [run EXCEPT ![w].pc = "done"]
    /\ counter_file' = save_counters(load_counters(counter_file))
    /\ UNCHANGED <<progress_file, store, generated_reports, stored_feedback, processed, active>>

\* lines 72-74: nothing left
NothingLeft(w) ==
    /\ run[w].pc = "begun"
    /\ run[w].next_index >= NumCases
    /\ run' = [run EXCEPT ![w].pc = "done"]
    /\ UNCHANGED <<Files, processed, active>>

\* lines 76-80: fetch the entry and advance the progress record
Claim(w) ==
    /\ run[w].pc = "begun"
    /\ run[w].next_index < NumCases
    /\ LET entry == data_lines[run[w].next_index]
       IN  run' = [run EXCEPT ![w] =
                     [@ EXCEPT !.pc = "claimed", !.claimed = TRUE,
                               !.user_feedback = entry.user_feedback,
                               !.retrieved_list = entry.retrieved_list,
                               !.counter_before = counter_file,
                               !.store_before = store,
                               !.generated_before = generated_reports,
                               !.stored_before = stored_feedback]]
    /\ progress_file' = save_progress(run[w].next_index)
    /\ processed' = Append(processed, run[w].next_index)
    /\ UNCHANGED <<counter_file, store, generated_reports, stored_feedback, active>>

\* a LoadCounters without counters["case_count"] += 1
LoadCounters_no_increment(w) ==
    /\ run[w].pc = "claimed"
    /\ run' = [run EXCEPT ![w] =
                 [@ EXCEPT !.pc = "cache_check", !.counters = load_counters(counter_file)]]
    /\ UNCHANGED <<Files, processed, active>>

\* lines 85-86: counters = load_counters(); counters["case_count"] += 1
LoadCounters(w) ==
    /\ run[w].pc = "claimed"
    /\ run' = [run EXCEPT ![w] =
                 [@ EXCEPT !.pc = "cache_check",
                           !.counters = [load_counters(counter_file) EXCEPT !.case_count = @ + 1]]]
    /\ UNCHANGED <<Files, processed, active>>

\* lines 90-91: memory.search_reports(user_feedback, top_k=3, verify_llm=True)
SearchReports(w) ==
    /\ run[w].pc = "cache_check"
    /\ \E response \in VerifyResponses :
         LET r == search_reports(store, run[w].user_feedback, top_k, TRUE, response)
         IN  run' = [run EXCEPT ![w] =
                       IF r.raised THEN failed(@)
                       ELSE [@ EXCEPT !.pc = "searched",
                                      !.reuse = r.value,
                                      !.verify_calls = IF r.asked THEN 1 ELSE 0]]
    /\ UNCHANGED <<Files, processed, active>>

\* the decision text of line 101, "Reused memory report (similarity reuse +
\* LLM verified)", by its first word
S_reused_decision == <<"R","e","u","s","e","d">>

\* a reuse branch that stores the reused report again
ReuseBranch_readd(w) ==
    /\ run[w].pc = "searched"
    /\ run[w].reuse.hit
    /\ LET counters   == [run[w].counters EXCEPT !.reuse_count = @ + 1]
           doc        == run[w].reuse.report
           sim_report == dict_get(doc.metadata, "bug_report", EmptyStr)
           state      == set_bug_report(
                             set_decision(MemoryState(run[w].user_feedback),
                                          S_reused_decision),
                             sim_report)
       IN  /\ counter_file' = save_counters(counters)
           /\ store' = add_report(store, state.feedback, state.bug_report, {})
           /\ run' = [run EXCEPT ![w] =
                        [@ EXCEPT !.pc = "done", !.terminal = "REUSED",
                                  !.counters = append_history(counters),
                                  !.state = state]]
    /\ UNCHANGED <<progress_file, generated_reports, stored_feedback, processed, active>>

\* lines 93-113: the reuse branch, ending the case
ReuseBranch(w) ==
    /\ run[w].pc = "searched"
    /\ run[w].reuse.hit
    /\ LET counters   == [run[w].counters EXCEPT !.reuse_count = @ + 1]
           doc        == run[w].reuse.report
           sim_report == dict_get(doc.metadata, "bug_report", EmptyStr)
           state      == set_bug_report(
                             set_decision(MemoryState(run[w].user_feedback),
                                          S_reused_decision),
                             sim_report)
       IN  /\ counter_file' = save_counters(counters)
           /\ run' = [run EXCEPT ![w] =
                        [@ EXCEPT !.pc = "done", !.terminal = "REUSED",
                                  !.counters = append_history(counters),
                                  !.state = state]]
    /\ UNCHANGED <<progress_file, store, generated_reports, stored_feedback, processed, active>>

\* position after the for loop, line 151: if not state.bug_report
after_loop(state) == IF ~Truthy(state.bug_report) THEN "react" ELSE "final_save"

\* position when the for loop is at index i of a list of n candidates
loop_at(i, n, state) == IF i < n THEN "loop" ELSE after_loop(state)

\* lines 115-121: no reuse, create the MemoryState and enter the loop
NoReuseBranch(w) ==
    /\ run[w].pc = "searched"
    /\ ~run[w].reuse.hit
    /\ LET state == MemoryState(run[w].user_feedback)
       IN  run' = [run EXCEPT ![w] =
                     [@ EXCEPT !.pc = loop_at(0, Len(run[w].retrieved_list), state),
                               !.state = state, !.idx = 0]]
    /\ UNCHANGED <<Files, processed, active>>

\* lines 121-126 and 147-148: judge candidate idx
Judge(w) ==
    /\ run[w].pc = "loop"
    /\ \E response \in JudgeResponses :
         LET doc    == run[w].retrieved_list[run[w].idx + 1]
             result == evaluate_candidate(response)
             branch == judge_branch(result)
             calls  == Append(run[w].judge_calls, [idx |-> run[w].idx, response |-> response])
             state  == IF branch = "relevant" THEN add_evidence(run[w].state, doc)
                       ELSE run[w].state
         IN  run' = [run EXCEPT ![w] =
                       IF branch = "raise" THEN failed(@)
                       ELSE [@ EXCEPT !.judge_calls = calls,
                                      !.state = state,
                                      !.idx = IF branch = "sufficient" THEN @ ELSE @ + 1,
                                      !.pc = IF branch = "sufficient" THEN "generate_local"
                                             ELSE loop_at(run[w].idx + 1,
                                                          Len(run[w].retrieved_list), state)]]
    /\ UNCHANGED <<Files, processed, active>>

\* the decision text of line 131, "Action: Generate (sufficient evidence found
\* locally, reasoning skipped)", by its first word
S_local_decision == <<"A","c","t","i","o","n">>

\* lines 127-131: generate from feedback + the sufficient candidate
GenerateLocal(w) ==
    /\ run[w].pc = "generate_local"
    /\ \E structured_report \in GeneratorResponses :
         LET doc     == run[w].retrieved_list[run[w].idx + 1]
             context == run[w].state.feedback \o S_nn \o doc
         IN  run' = [run EXCEPT ![w] =
                       [@ EXCEPT !.pc = "add_local", !.terminal = "LOCAL_SUFFICIENT",
                                 !.gen_calls = Append(@, context),
                                 !.state = set_decision(set_bug_report(@, structured_report),
                                                        S_local_decision)]]
    /\ UNCHANGED <<Files, processed, active>>

\* line 134: memory.add_report(state.feedback, state.bug_report)
AddLocal(w) ==
    /\ run[w].pc = "add_local"
    /\ store' = add_report(store, run[w].state.feedback, run[w].state.bug_report, {})
    /\ run' = [run EXCEPT ![w].pc = "log_local"]
    /\ UNCHANGED <<progress_file, counter_file, generated_reports, stored_feedback, processed, active>>

\* lines 135-141: append to logs/generated_reports.jsonl
LogLocal(w) ==
    /\ run[w].pc = "log_local"
    /\ generated_reports' = Append(generated_reports, report_line(run[w].state))
    /\ run' = [run EXCEPT ![w].pc = "save_local"]
    /\ UNCHANGED <<progress_file, counter_file, store, stored_feedback, processed, active>>

\* a SaveLocal without the break: the loop goes on with the next candidate
SaveLocal_no_break(w) ==
    /\ run[w].pc = "save_local"
    /\ counter_file' = save_counters(run[w].counters)
    /\ run' = [run EXCEPT ![w] =
                 [@ EXCEPT !.pc = loop_at(run[w].idx + 1, Len(run[w].retrieved_list), run[w].state),
                           !.idx = @ + 1,
                           !.counters = append_history(@)]]
    /\ UNCHANGED <<progress_file, store, generated_reports, stored_feedback, processed, active>>

\* lines 144-145: save_counters(counters); break
SaveLocal(w) ==
    /\ run[w].pc = "save_local"
    /\ counter_file' = save_counters(run[w].counters)
    /\ run' = [run EXCEPT ![w] =
                 [@ EXCEPT !.pc = after_loop(run[w].state),
                           !.counters = append_history(@)]]
    /\ UNCHANGED <<progress_file, store, generated_reports, stored_feedback, processed, active>>

\* lines 151-155: decision = react_reasoning(state.feedback, state.collected)
React(w) ==
    /\ run[w].pc = "react"
    /\ \E response \in ReactResponses, o \in SearchOutcomes :
         LET decision == react_reasoning(run[w].state.feedback, run[w].state.collected,
                                         response, o)
         IN  run' = [run EXCEPT ![w] =
                       [@ EXCEPT !.pc = "dispatch",
                                 !.decision = decision,
                                 !.react_calls = Append(@, [feedback |-> run[w].state.feedback,
                                                            collected |-> run[w].state.collected]),
                                 !.search_calls = IF react_searches(response) THEN @ + 1 ELSE @,
                                 !.search_summary = IF react_searches(response)
                                                    THEN summarize_results(o) ELSE @,
                                 !.state = set_decision(@, decision.rationale)]]
    /\ UNCHANGED <<Files, processed, active>>

\* the line written to logs/stored_feedback.jsonl
stored_entry(state, rationale, summary) ==
    [feedback |-> state.feedback, collected |-> state.collected,
     rationale |-> rationale, summary |-> summary]

\* lines 196-199: decision.action == "generate"
GenerateReason(w) ==
    /\ run[w].pc = "dispatch"
    /\ run[w].decision.action = S_generate
    /\ \E structured_report \in GeneratorResponses :
         run' = [run EXCEPT ![w] =
                   [@ EXCEPT !.pc = "add_reason",
                             !.terminal = IF run[w].decision.combined_context # None
                                          THEN "SEARCH_GENERATE" ELSE "REASON_GENERATE",
                             !.gen_calls = Append(@, run[w].decision.result),
                             !.state = set_bug_report(@, structured_report)]]
    /\ UNCHANGED <<Files, processed, active>>

\* line 202: memory.add_report(state.feedback, state.bug_report)
AddReason(w) ==
    /\ run[w].pc = "add_reason"
    /\ store' = add_report(store, run[w].state.feedback, run[w].state.bug_report, {})
    /\ run' = [run EXCEPT ![w].pc = "log_reason"]
    /\ UNCHANGED <<progress_file, counter_file, generated_reports, stored_feedback, processed, active>>

\* lines 203-211: append to logs/generated_reports.jsonl
LogReason(w) ==
    /\ run[w].pc = "log_reason"
    /\ generated_reports' = Append(generated_reports, report_line(run[w].state))
    /\ run' = [run EXCEPT ![w].pc = "final_save"]
    /\ UNCHANGED <<progress_file, counter_file, store, stored_feedback, processed, active>>

\* lines 213-222: decision.action == "store"
StoreDeferred(w) ==
    /\ run[w].pc = "dispatch"
    /\ run[w].decision.action = S_store
    /\ stored_feedback' = Append(stored_feedback,
                                 stored_entry(run[w].state, run[w].decision.rationale,
                                              run[w].decision.combined_context))
    /\ run' = [run EXCEPT ![w] = [@ EXCEPT !.pc = "final_save", !.terminal = "SEARCH_STORE"]]
    /\ UNCHANGED <<progress_file, counter_file, store, generated_reports, processed, active>>

\* "\n".join(lines)
RECURSIVE join_lines(_)
join_lines(lines) ==
    IF Len(lines) = 0 THEN EmptyStr
    ELSE IF Len(lines) = 1 THEN lines[1]
    ELSE lines[1] \o <<"\n">> \o join_lines(Tail(lines))

S_user_feedback == <<"U","s","e","r"," ","f","e","e","d","b","a","c","k",":","\n">>

S_previously_collected == <<"P","r","e","v","i","o","u","s","l","y"," ","c","o","l","l","e","c","t","e","d"," ","i","n","f","o","r","m","a","t","i","o","n",":","\n">>

S_online_summary == <<"O","n","l","i","n","e"," ","s","e","a","r","c","h"," ","s","u","m","m","a","r","y",":","\n">>

\* lines 157-194: decision.action == "search", taken in one step
main_search(w, o, structured_report) ==
    LET search_decision == online_search_agent(run[w].state.feedback, o)
        decided  == set_decision(run[w].state,
                                 run[w].decision.rationale \o <<"\n">> \o search_decision.rationale)
        collected_text == IF Len(run[w].state.collected) > 0
                          THEN join_lines(run[w].state.collected) ELSE EmptyStr
        combined_context == S_user_feedback \o run[w].state.feedback \o S_nn
                                \o S_previously_collected \o collected_text \o S_nn
                                \o S_online_summary \o search_decision.combined_context
        reported == set_bug_report(decided, structured_report)
    IN  IF search_decision.action = S_generate
        THEN /\ store' = add_report(store, reported.feedback, reported.bug_report, {})
             /\ generated_reports' = Append(generated_reports, report_line(reported))
             /\ run' = [run EXCEPT ![w] =
                          [@ EXCEPT !.pc = "final_save", !.terminal = "SEARCH_GENERATE",
                                    !.search_calls = @ + 1,
                                    !.gen_calls = Append(@, combined_context),
                                    !.state = reported]]
             /\ UNCHANGED stored_feedback
        ELSE IF search_decision.action = S_store
        THEN /\ stored_feedback' = Append(stored_feedback,
                                          stored_entry(decided, search_decision.rationale,
                                                       search_decision.combined_context))
             /\ run' = [run EXCEPT ![w] =
                          [@ EXCEPT !.pc = "final_save", !.terminal = "SEARCH_STORE",
                                    !.search_calls = @ + 1, !.state = decided]]
             /\ UNCHANGED <<store, generated_reports>>
        ELSE /\ run' = [run EXCEPT ![w] =
                          [@ EXCEPT !.pc = "final_save", !.search_calls = @ + 1,
                                    !.state = decided]]
             /\ UNCHANGED <<store, generated_reports, stored_feedback>>

\* lines 157-222 when the action is neither "generate" nor "store": the
\* "search" branch, or no branch at all (action "none")
DispatchOther(w) ==
    /\ run[w].pc = "dispatch"
    /\ run[w].decision.action \notin {S_generate, S_store}
    /\ IF run[w].decision.action = S_search
       THEN \E o \in SearchOutcomes, structured_report \in GeneratorResponses :
                main_search(w, o, structured_report)
       ELSE /\ run' = [run EXCEPT ![w] = [@ EXCEPT !.pc = "final_save", !.terminal = "REASON_NONE"]]
            /\ UNCHANGED <<store, generated_reports, stored_feedback>>
    /\ UNCHANGED <<progress_file, counter_file, processed, active>>

\* a FinalSave that counts the case again
FinalSave_recount(w) ==
    /\ run[w].pc = "final_save"
    /\ counter_file' = save_counters([run[w].counters EXCEPT !.case_count = @ + 1])
    /\ run' = [run EXCEPT ![w] =
                 [@ EXCEPT !.pc = "done",
                           !.counters = append_history([@ EXCEPT !.case_count = @ + 1])]]
    /\ UNCHANGED <<progress_file, store, generated_reports, stored_feedback, processed, active>>

\* lines 224-232: save_counters(counters) and return
FinalSave(w) ==
    /\ run[w].pc = "final_save"
    /\ counter_file' = save_counters(run[w].counters)
    /\ run' = [run EXCEPT ![w] = [@ EXCEPT !.pc = "done", !.counters = append_history(@)]]
    /\ UNCHANGED <<progress_file, store, generated_reports, stored_feedback, processed, active>>

\* an exception raised by a collaborator (LLM, vector store, file system) or
\* the end of the process anywhere inside main()
Abandon(w) ==
    /\ run[w].pc \notin Resting
    /\ run' = [run EXCEPT ![w] = failed(run[w])]
    /\ UNCHANGED <<Files, processed, active>>

Next ==
    \/ \E w \in active : Begin(w) /\ UNCHANGED <<loop_i, probe>>
    \/ \E w \in active : NothingLeft(w) /\ UNCHANGED <<loop_i, probe>>
    \/ \E w \in active : Claim(w) /\ UNCHANGED <<loop_i, probe>>
    \/ \E w \in active : LoadCounters(w) /\ UNCHANGED <<loop_i, probe>>
    \/ \E w \in active : SearchReports(w) /\ UNCHANGED <<loop_i, probe>>
    \/ \E w \in active : ReuseBranch(w) /\ UNCHANGED <<loop_i, probe>>
    \/ \E w \in active : NoReuseBranch(w) /\ UNCHANGED <<loop_i, probe>>
    \/ \E w \in active : Judge(w) /\ UNCHANGED <<loop_i, probe>>
    \/ \E w \in active : GenerateLocal(w) /\ UNCHANGED <<loop_i, probe>>
    \/ \E w \in active : AddLocal(w) /\ UNCHANGED <<loop_i, probe>>
    \/ \E w \in active : LogLocal(w) /\ UNCHANGED <<loop_i, probe>>
    \/ \E w \in active : SaveLocal(w) /\ UNCHANGED <<loop_i, probe>>
    \/ \E w \in active : React(w) /\ UNCHANGED <<loop_i, probe>>
    \/ \E w \in active : GenerateReason(w) /\ UNCHANGED <<loop_i, probe>>
    \/ \E w \in active : AddReason(w) /\ UNCHANGED <<loop_i, probe>>
    \/ \E w \in active : LogReason(w) /\ UNCHANGED <<loop_i, probe>>
    \/ \E w \in active : StoreDeferred(w) /\ UNCHANGED <<loop_i, probe>>
    \/ \E w \in active : DispatchOther(w) /\ UNCHANGED <<loop_i, probe>>
    \/ \E w \in active : FinalSave(w) /\ UNCHANGED <<loop_i, probe>>
    \/ \E w \in active : Abandon(w) /\ UNCHANGED <<loop_i, probe>>

Spec == Init /\ [][Next]_vars

\* ------------------------------------------------------- the __main__ loop
\* an iteration that is not started once a case has failed
LoopIterate_stop_on_error(w) ==
    /\ loop_i < NumCases
    /\ run[w].pc # "failed"
    /\ Begin(w)
    /\ loop_i' = loop_i + 1
    /\ UNCHANGED probe

\* lines 242-247: an iteration of `for i, entry in enumerate(lines, start=1)`
\* calls main(); lines holds the same file main() reads
LoopIterate(w) ==
    /\ loop_i < NumCases
    /\ Begin(w)
    /\ loop_i' = loop_i + 1
    /\ UNCHANGED probe

\* lines 235-241: the script is run again once no call of main() is under way
Relaunch ==
    /\ loop_i > 0
    /\ \A w \in active : run[w].pc \in Resting
    /\ loop_i' = 0
    /\ UNCHANGED <<Files, run, processed, active, probe>>

NextLoop ==
    \/ \E w \in active : LoopIterate(w)
    \/ Relaunch
    \/ \E w \in active : NothingLeft(w) /\ UNCHANGED <<loop_i, probe>>
    \/ \E w \in active : Claim(w) /\ UNCHANGED <<loop_i, probe>>
    \/ \E w \in active : LoadCounters(w) /\ UNCHANGED <<loop_i, probe>>
    \/ \E w \in active : SearchReports(w) /\ UNCHANGED <<loop_i, probe>>
    \/ \E w \in active : ReuseBranch(w) /\ UNCHANGED <<loop_i, probe>>
    \/ \E w \in active : NoReuseBranch(w) /\ UNCHANGED <<loop_i, probe>>
    \/ \E w \in active : Judge(w) /\ UNCHANGED <<loop_i, probe>>
    \/ \E w \in active : GenerateLocal(w) /\ UNCHANGED <<loop_i, probe>>
    \/ \E w \in active : AddLocal(w) /\ UNCHANGED <<loop_i, probe>>
    \/ \E w \in active : LogLocal(w) /\ UNCHANGED <<loop_i, probe>>
    \/ \E w \in active : SaveLocal(w) /\ UNCHANGED <<loop_i, probe>>
    \/ \E w \in active : React(w) /\ UNCHANGED <<loop_i, probe>>
    \/ \E w \in active : GenerateReason(w) /\ UNCHANGED <<loop_i, probe>>
    \/ \E w \in active : AddReason(w) /\ UNCHANGED <<loop_i, probe>>
    \/ \E w \in active : LogReason(w) /\ UNCHANGED <<loop_i, probe>>
    \/ \E w \in active : StoreDeferred(w) /\ UNCHANGED <<loop_i, probe>>
    \/ \E w \in active : DispatchOther(w) /\ UNCHANGED <<loop_i, probe>>
    \/ \E w \in active : FinalSave(w) /\ UNCHANGED <<loop_i, probe>>
    \/ \E w \in active : Abandon(w) /\ UNCHANGED <<loop_i, probe>>

SpecLoop == Init /\ [][NextLoop]_vars

\* ------------------------------------------------- two workers side by side
\* two processes run main() on the same files, each once
InitTwo ==
    /\ progress_file = NoProgressFile
    /\ counter_file = NoCounterFile
    /\ store = <<>>
    /\ generated_reports = <<>>
    /\ stored_feedback = <<>>
    /\ run = [w \in Workers |-> InitRun]
    /\ processed = <<>>
    /\ active = Workers
    /\ loop_i = 0
    /\ probe = NoProbe

\* a worker's one call of main()
BeginOnce(w) ==
    /\ run[w].pc = "idle"
    /\ Begin(w)

\* the steps of main() that read or write the shared files up to the last
\* save of the counters, for a case that is reused or has a sufficient
\* candidate; the escalation steps are left out
NextTwo ==
    \/ \E w \in active : BeginOnce(w) /\ UNCHANGED <<loop_i, probe>>
    \/ \E w \in active : Claim(w) /\ UNCHANGED <<loop_i, probe>>
    \/ \E w \in active : LoadCounters(w) /\ UNCHANGED <<loop_i, probe>>
    \/ \E w \in active : SearchReports(w) /\ UNCHANGED <<loop_i, probe>>
    \/ \E w \in active : ReuseBranch(w) /\ UNCHANGED <<loop_i, probe>>
    \/ \E w \in active : NoReuseBranch(w) /\ UNCHANGED <<loop_i, probe>>
    \/ \E w \in active : Judge(w) /\ UNCHANGED <<loop_i, probe>>
    \/ \E w \in active : GenerateLocal(w) /\ UNCHANGED <<loop_i, probe>>
    \/ \E w \in active : AddLocal(w) /\ UNCHANGED <<loop_i, probe>>
    \/ \E w \in active : LogLocal(w) /\ UNCHANGED <<loop_i, probe>>
    \/ \E w \in active : SaveLocal(w) /\ UNCHANGED <<loop_i, probe>>
    \/ \E w \in active : FinalSave(w) /\ UNCHANGED <<loop_i, probe>>
    \/ \E w \in active : Abandon(w) /\ UNCHANGED <<loop_i, probe>>

SpecTwo == InitTwo /\ [][NextTwo]_vars

\* ---------------------------------------------------- functions on their own
\* the longest cache a call of search_reports is studied on
MaxStore == 2

\* the caches add_report can have built with at most n entries
RECURSIVE StoresUpTo(_)
StoresUpTo(n) ==
    IF n = 0 THEN {<<>>}
    ELSE LET shorter == StoresUpTo(n - 1)
         IN  shorter \cup {add_report(st, Feedbacks[i], <<"r">>, {}) :
                               st \in shorter, i \in 1..Len(Feedbacks)}

\* a call search_reports(feedback, top_k, verify_llm) on a cache, with the
\* answer the verification oracle gives if it is asked
SearchCalls ==
    {[fn |-> "search_reports", store |-> st, feedback |-> Feedbacks[i],
      verify_llm |-> v, response |-> response, returned |-> FALSE,
      out |-> [raised |-> FALSE, asked |-> FALSE, value |-> NoReuse]] :
        st \in StoresUpTo(MaxStore), i \in 1..Len(Feedbacks), v \in BOOLEAN,
        response \in VerifyResponses}

CallSearchReports ==
    /\ probe.fn = "search_reports"
    /\ ~probe.returned
    /\ probe' = [probe EXCEPT !.returned = TRUE,
                              !.out = search_reports(probe.store, probe.feedback, top_k,
                                                     probe.verify_llm, probe.response)]
    /\ UNCHANGED <<Files, run, processed, active, loop_i>>

\* an iteration of main()'s candidate loop: the candidate at idx of the
\* retrieved list, the evidence collected from the candidates before it, and
\* the judge's answer
JudgeCalls ==
    UNION {
      {[fn |-> "evaluate_candidate", retrieved_list |-> Docs, idx |-> idx,
        state |-> [MemoryState(Feedbacks[1]) EXCEPT !.collected = SubSeq(Docs, 1, n)],
        response |-> response, returned |-> FALSE, branch |-> "none",
        out |-> MemoryState(Feedbacks[1])] :
          n \in 0..idx, response \in JudgeResponses} :
      idx \in 0..(Len(Docs) - 1)}

\* lines 121-148: result = evaluate_candidate(state.feedback, doc) and the
\* branch main() takes on it
CallEvaluateCandidate ==
    /\ probe.fn = "evaluate_candidate"
    /\ ~probe.returned
    /\ LET doc    == probe.retrieved_list[probe.idx + 1]
           result == evaluate_candidate(probe.response)
           branch == judge_branch(result)
       IN  probe' = [probe EXCEPT !.returned = TRUE,
                                  !.branch = branch,
                                  !.out = IF branch = "relevant"
                                          THEN add_evidence(probe.state, doc)
                                          ELSE probe.state]
    /\ UNCHANGED <<Files, run, processed, active, loop_i>>

\* --- pipeline.py: fusion weights.  Similarities are multiples of 1/SimSteps
\* in [0, 1], beta_base a multiple of 1/2 up to MaxBetaHalves/2, the alphas
\* multiples of 1/2; a real number is a fraction [num, den] or, for the
\* exponentials, a count of 1/ExpScale
SimSteps == 4

MaxBetaHalves == 4

ExpScale == 1000

\* floor(a * n / d) without forming a * n
MulDiv(a, n, d) == (a \div d) * n + ((a % d) * n) \div d

\* the terms x^k / k! of the exponential series from the k-th on, x = n/d
RECURSIVE ExpSeries(_, _, _, _)
ExpSeries(term, n, d, k) ==
    IF term = 0 THEN 0
    ELSE term + ExpSeries(MulDiv(term, n, d * (k + 1)), n, d, k + 1)

\* math.exp(n/d) in 1/ExpScale; for a negative argument the reciprocal of the
\* series at -n/d
exp(n, d) ==
    IF n >= 0 THEN ExpSeries(ExpScale, n, d, 0)
    ELSE (ExpScale * ExpScale) \div ExpSeries(ExpScale, -n, d, 0)

abs(x) == IF x >= 0 THEN x ELSE -x

\* adaptive_weights with exp(beta * (1 - s)) for exp(beta * s): the weights of
\* exp(-beta * s)
adaptive_weights_negated(s1, s2, alpha1, alpha2, beta_base) ==
    LET diff == abs(s1 - s2)
        beta == [num |-> beta_base * diff * 5, den |-> 2 * SimSteps]
        w1   == alpha1 * exp(beta.num * (SimSteps - s1), beta.den * SimSteps)
        w2   == alpha2 * exp(beta.num * (SimSteps - s2), beta.den * SimSteps)
        z    == w1 + w2
    IN  [w1 |-> [num |-> w1, den |-> z], w2 |-> [num |-> w2, den |-> z], beta |-> beta]

\* adaptive_weights(s1, s2, alpha1, alpha2, beta_base): s1, s2 in 1/SimSteps,
\* alpha1, alpha2, beta_base in halves; w1 and w2 are then in 1/(2 * ExpScale)
\* and the quotients w1/z, w2/z are returned as fractions
adaptive_weights(s1, s2, alpha1, alpha2, beta_base) ==
    LET diff == abs(s1 - s2)
        beta == [num |-> beta_base * diff * 5, den |-> 2 * SimSteps]
        w1   == alpha1 * exp(beta.num * s1, beta.den * SimSteps)
        w2   == alpha2 * exp(beta.num * s2, beta.den * SimSteps)
        z    == w1 + w2
    IN  [w1 |-> [num |-> w1, den |-> z], w2 |-> [num |-> w2, den |-> z], beta |-> beta]

\* the default alpha1 = alpha2 = 0.5, in halves
alpha_default == 1

WeightCalls ==
    {[fn |-> "adaptive_weights", s1 |-> s1, s2 |-> s2, beta_base |-> b, returned |-> FALSE,
      out |-> [w1 |-> [num |-> 0, den |-> 1], w2 |-> [num |-> 0, den |-> 1],
               beta |-> [num |-> 0, den |-> 1]]] :
        s1 \in 0..SimSteps, s2 \in 0..SimSteps, b \in 0..MaxBetaHalves}

CallAdaptiveWeights ==
    /\ probe.fn = "adaptive_weights"
    /\ ~probe.returned
    /\ probe' = [probe EXCEPT !.returned = TRUE,
                              !.out = adaptive_weights(probe.s1, probe.s2, alpha_default,
                                                       alpha_default, probe.beta_base)]
    /\ UNCHANGED <<Files, run, processed, active, loop_i>>

\* --- pipeline.py: the fusion of the two tiers for one feedback
TOP_K == 10

FINAL_TOP_N == 5

\* THRESHOLD_LOW = 0.75, in hundredths
THRESHOLD_LOW == 75

\* BETA_BASE = 2.0, in halves
BETA_BASE == 4

\* the most candidates a tier's collection holds
MaxTier == 3

Passages == {<<"p">>, <<"q", " ">>}

\* cosine distances a tier reports, in 1/SimSteps: 0, about 0.5, and one above 1
TierDistances == {0, SimSteps \div 2, SimSteps + 1}

\* layer.query(query_texts=[qtext], n_results=TOP_K): up to TOP_K documents
\* with their distances, nearest first
TierResults ==
    UNION {{res \in [1..k -> [doc : Passages, distance : TierDistances]] :
               \A i, j \in 1..k : i < j => res[i].distance <= res[j].distance} :
           k \in 0..Min(MaxTier, TOP_K)}

\* a tier: its collection opens and answers, or client.get_collection fails,
\* or layer.query fails
Tiers ==
    {[status |-> "ok", results |-> res] : res \in TierResults}
    \cup {[status |-> st, results |-> <<>>] : st \in {"open_fails", "query_fails"}}

\* compute_cosine_similarity(distances) = [1 - d for d in distances]
compute_cosine_similarity(distances) ==
    [i \in 1..Len(distances) |-> SimSteps - distances[i]]

\* max(sims)
RECURSIVE max(_)
max(sims) ==
    IF Len(sims) = 1 THEN sims[1]
    ELSE LET m == max(Tail(sims)) IN IF sims[1] >= m THEN sims[1] ELSE m

\* lines 75-78: the candidates of one tier with their fused scores w * sim;
\* tier and rank record where a candidate came from
scored(tier, docs, sims, w) ==
    [i \in 1..Len(docs) |->
        [text |-> docs[i],
         score |-> [num |-> w.num * sims[i], den |-> w.den * SimSteps],
         tier |-> tier, rank |-> i]]

\* a descending sort that puts the later of two equal scores first
sorted_by_score_unstable(combined) ==
    LET n       == Len(combined)
        rank(i) == Cardinality({j \in 1..n :
                       \/ combined[j].score.num > combined[i].score.num
                       \/ combined[j].score.num = combined[i].score.num /\ j > i})
        at(r)   == CHOOSE i \in 1..n : rank(i) = r - 1
    IN  [r \in 1..n |-> combined[at(r)]]

\* sorted(combined, key=lambda x: x["score"], reverse=True): descending and
\* stable; all scores have the same denominator
sorted_by_score(combined) ==
    LET n       == Len(combined)
        rank(i) == Cardinality({j \in 1..n :
                       \/ combined[j].score.num > combined[i].score.num
                       \/ combined[j].score.num = combined[i].score.num /\ j < i})
        at(r)   == CHOOSE i \in 1..n : rank(i) = r - 1
    IN  [r \in 1..n |-> combined[at(r)]]

\* [x["text"].strip() for x in combined[:FINAL_TOP_N] if x["text"].strip()]
retrieved_of(combined) ==
    LET top      == SubSeq(combined, 1, Min(FINAL_TOP_N, Len(combined)))
        stripped == [i \in 1..Len(top) |-> strip(top[i].text)]
    IN  SelectSeq(stripped, LAMBDA t : t # EmptyStr)

NoSample == [id |-> None]

\* lines 27-29 and 53-92 for one feedback fb and the two tiers: raised = an
\* exception ends the script, written = a line is written for the feedback.
\* The weights are logged rounded to 4 decimals; here they are kept exact.
fusion(fb, tier1, tier2) ==
    LET qtext == strip(fb.summary)
        docs1 == [i \in 1..Len(tier1.results) |-> tier1.results[i].doc]
        sims1 == compute_cosine_similarity([i \in 1..Len(tier1.results) |->
                                               tier1.results[i].distance])
        s1    == IF Len(sims1) > 0 THEN max(sims1) ELSE 0
        docs2 == [i \in 1..Len(tier2.results) |-> tier2.results[i].doc]
        sims2 == compute_cosine_similarity([i \in 1..Len(tier2.results) |->
                                               tier2.results[i].distance])
        s2    == IF Len(sims2) > 0 THEN max(sims2) ELSE 0
        w     == adaptive_weights(s1, s2, alpha_default, alpha_default, BETA_BASE)
        combined == sorted_by_score(scored(1, docs1, sims1, w.w1)
                                    \o scored(2, docs2, sims2, w.w2))
        none  == [raised |-> FALSE, written |-> FALSE, s1 |-> 0, s2 |-> 0,
                  combined |-> <<>>, sample |-> NoSample]
    IN  IF tier1.status = "open_fails" \/ tier2.status = "open_fails"
        THEN [none EXCEPT !.raised = TRUE]
        ELSE IF qtext = EmptyStr THEN none
        ELSE IF tier1.status = "query_fails" \/ tier2.status = "query_fails"
        THEN [none EXCEPT !.raised = TRUE]
        ELSE [raised |-> FALSE, written |-> TRUE, s1 |-> s1, s2 |-> s2,
              combined |-> combined,
              sample |-> [id |-> fb.id, user_feedback |-> qtext,
                          retrieved_list |-> retrieved_of(combined),
                          weights |-> [w1 |-> w.w1, w2 |-> w.w2, beta |-> w.beta]]]

\* the feedbacks of user_feedback.json: one with a summary, one whose summary
\* is blank
FusionFeedbacks ==
    {[id |-> <<"1">>, summary |-> <<"f", " ">>], [id |-> <<"2">>, summary |-> <<" ">>]}

FusionCalls ==
    {[fn |-> "fusion", fb |-> fb, tier1 |-> t1, tier2 |-> t2, returned |-> FALSE,
      out |-> [raised |-> FALSE, written |-> FALSE, s1 |-> 0, s2 |-> 0,
               combined |-> <<>>, sample |-> NoSample],
      again |-> [raised |-> FALSE, written |-> FALSE, s1 |-> 0, s2 |-> 0,
                 combined |-> <<>>, sample |-> NoSample]] :
        fb \in FusionFeedbacks, t1 \in Tiers, t2 \in Tiers}

\* the fusion is run for the feedback, and run a second time on the same tier
\* outputs
CallFusion ==
    /\ probe.fn = "fusion"
    /\ ~probe.returned
    /\ probe' = [probe EXCEPT !.returned = TRUE,
                              !.out = fusion(probe.fb, probe.tier1, probe.tier2),
                              !.again = fusion(probe.fb, probe.tier1, probe.tier2)]
    /\ UNCHANGED <<Files, run, processed, active, loop_i>>

InitFusion ==
    /\ progress_file = NoProgressFile
    /\ counter_file = NoCounterFile
    /\ store = <<>>
    /\ generated_reports = <<>>
    /\ stored_feedback = <<>>
    /\ run = [w \in Workers |-> InitRun]
    /\ processed = <<>>
    /\ active = {1}
    /\ loop_i = 0
    /\ probe \in FusionCalls

NextFusion ==
    \/ CallFusion

SpecFusion == InitFusion /\ [][NextFusion]_vars

\* --- react_agent.py: react_reasoning on its own
\* texts the reasoning LLM may answer: those of ReactResponses, an answer in
\* capitals and an empty answer
ReasoningResponses ==
    ReactResponses \cup {<<"S","E","A","R","C","H">>, EmptyStr}

\* a call react_reasoning(user_feedback, collected) with the LLM's response
\* and the outcome the search sub-pipeline has if it is run
ReasoningCalls ==
    {[fn |-> "react_reasoning", user_feedback |-> Feedbacks[1], collected |-> c,
      response |-> response, outcome |-> o, returned |-> FALSE,
      searched |-> FALSE, out |-> AgentDecision(None, None, None, None, 0)] :
        c \in {<<>>, <<Docs[1]>>}, response \in ReasoningResponses,
        o \in SearchOutcomes}

\* lines 50-88: searched = online_search_agent was run
CallReactReasoning ==
    /\ probe.fn = "react_reasoning"
    /\ ~probe.returned
    /\ probe' = [probe EXCEPT !.returned = TRUE,
                              !.searched = react_searches(probe.response),
                              !.out = react_reasoning(probe.user_feedback, probe.collected,
                                                      probe.response, probe.outcome)]
    /\ UNCHANGED <<Files, run, processed, active, loop_i>>

\* --- generated_memory.py: add_report on its own
\* the metadata argument of add_report: omitted (None, an empty dict being
\* treated alike), a dict without the report, a dict with the report
AddMetadata(bug_report) ==
    {{}, {<<"source", <<"m">>>>}, {<<"bug_report", bug_report>>}}

\* a call add_report(feedback, bug_report, metadata) on a cache
AddCalls ==
    UNION {
      {[fn |-> "add_report", store |-> st, feedback |-> Feedbacks[i],
        bug_report |-> b, metadata |-> m, returned |-> FALSE, out |-> st] :
          st \in StoresUpTo(MaxStore), i \in 1..Len(Feedbacks), m \in AddMetadata(b)} :
      b \in {<<"r">>, <<"t">>}}

\* lines 29-38: out = the cache after the call
CallAddReport ==
    /\ probe.fn = "add_report"
    /\ ~probe.returned
    /\ probe' = [probe EXCEPT !.returned = TRUE,
                              !.out = add_report(probe.store, probe.feedback,
                                                 probe.bug_report, probe.metadata)]
    /\ UNCHANGED <<Files, run, processed, active, loop_i>>

InitCalls ==
    /\ progress_file = NoProgressFile
    /\ counter_file = NoCounterFile
    /\ store = <<>>
    /\ generated_reports = <<>>
    /\ stored_feedback = <<>>
    /\ run = [w \in Workers |-> InitRun]
    /\ processed = <<>>
    /\ active = {1}
    /\ loop_i = 0
    /\ \/ probe \in SearchCalls
       \/ probe \in JudgeCalls
       \/ probe \in WeightCalls
       \/ probe \in ReasoningCalls
       \/ probe \in AddCalls

NextCalls ==
    \/ CallSearchReports
    \/ CallEvaluateCandidate
    \/ CallAdaptiveWeights
    \/ CallReactReasoning
    \/ CallAddReport

SpecCalls == InitCalls /\ [][NextCalls]_vars

\* ============================================================ properties
\* the index stored in the progress record, -1 when there is none
last_index == load_progress(progress_file)

StrictlyIncreasing(seq) == \A j, k \in 1..Len(seq) : j < k => seq[j] < seq[k]

\* C1: resumability.  With the progress record at i and i+1 a valid index,
\* the call of main() that fetches a case fetches case i+1 and writes
\* last_index = i+1; last_index never decreases, the record changes only when
\* a case is fetched, and no index is fetched twice (the fetched indices are
\* strictly increasing and end at last_index).
C1_Resumability ==
    [][ /\ load_progress(progress_file') >= last_index
        /\ (processed' # processed =>
               /\ last_index + 1 < NumCases
               /\ processed' = Append(processed, last_index + 1)
               /\ load_progress(progress_file') = last_index + 1)
        /\ (progress_file' # progress_file => processed' # processed)
        /\ (run[1].pc = "begun" /\ last_index + 1 < NumCases /\ run'[1].pc \notin {"begun", "failed"}
               => processed' # processed)
        /\ StrictlyIncreasing(processed')
        /\ (processed' # <<>> => processed'[Len(processed')] = load_progress(progress_file'))
      ]_vars

\* C1 witness: two successive calls fetched cases 0 and 1
C1_Witness == Len(processed) >= 2 /\ processed[1] = 0 /\ processed[2] = 1 /\ last_index >= 1

\* C2: in every persisted counter record reuse_count <= case_count, and no
\* step of any run, interrupted or not, lowers the persisted reuse_count or
\* case_count.
C2_CounterMonotone ==
    /\ counter_file.reuse_count <= counter_file.case_count
    /\ [][ /\ counter_file'.reuse_count <= counter_file'.case_count
           /\ counter_file'.reuse_count >= counter_file.reuse_count
           /\ counter_file'.case_count >= counter_file.case_count ]_vars

\* C2 witness: a reuse and a regular case have both been counted
C2_Witness == counter_file.reuse_count = 1 /\ counter_file.case_count = 2

\* C3: the counter file is written only when the case has reached a terminal
\* state, each write leaves case_count one above its value when the case was
\* fetched and reuse_count one above exactly when the state is REUSED; a case
\* that returns has reached a terminal state, and a case abandoned before
\* one leaves the file as it was.
C3_CounterAccounting ==
    [][ LET r == run'[1]
            counted == /\ counter_file'.case_count = r.counter_before.case_count + 1
                       /\ counter_file'.reuse_count =
                             r.counter_before.reuse_count
                               + (IF r.terminal = "REUSED" THEN 1 ELSE 0)
        IN  /\ (counter_file' # counter_file => r.terminal \in TerminalStates /\ counted)
            /\ (r.pc = "done" /\ r.claimed => r.terminal \in TerminalStates /\ counted)
            /\ (r.pc = "failed" /\ r.claimed /\ r.terminal = "NONE"
                   => counter_file' = r.counter_before)
      ]_vars

\* C3 witness: the second case ended REUSED after a first case was counted
C3_Witness ==
    /\ run[1].pc = "done" /\ run[1].terminal = "REUSED"
    /\ counter_file.case_count = 2 /\ counter_file.reuse_count = 1

\* C4 as stated: a call of main() that follows a case abandoned before a
\* terminal state works on the same index again.
C4_Original ==
    [][ run[1].pc = "failed" /\ run[1].claimed /\ run[1].terminal = "NONE"
          /\ run'[1].pc = "begun"
        => run'[1].next_index = run[1].next_index ]_vars

\* C4 amended: after a case i was fetched and abandoned before a terminal
\* state, the next call of main() takes index i+1 (the case after it, or
\* nothing left when i was the last one), and case i is in the fetched
\* sequence exactly once: it is never attempted again.
C4_Amended ==
    \A w \in {1} :
        run[w].prev_abandoned >= 0 =>
            /\ run[w].next_index = run[w].prev_abandoned + 1
            /\ Cardinality({k \in 1..Len(processed) : processed[k] = run[w].prev_abandoned}) = 1
            /\ (run[w].claimed => processed[Len(processed)] = run[w].prev_abandoned + 1)

\* C4 witness: case 0 was abandoned and the next call has fetched case 1
C4_Witness ==
    run[1].prev_abandoned = 0 /\ run[1].pc = "cache_check" /\ run[1].next_index = 1

\* the judge's answer, read from the raw response: a JSON object with both
\* fields true
JudgedSufficient(c) ==
    /\ c.response.kind = "dict"
    /\ c.response.has_relevant /\ c.response.relevant
    /\ c.response.has_sufficient /\ c.response.sufficient

\* a JSON object with relevant true and sufficient false
JudgedRelevantOnly(c) ==
    /\ c.response.kind = "dict"
    /\ c.response.has_relevant /\ c.response.relevant
    /\ c.response.has_sufficient /\ ~c.response.sufficient

\* C5: a reuse decision ends the case in REUSED at the next step of main();
\* the case then carries the report stored with the matched cache entry,
\* reuse_count is one above its value at the start of the case, no judge,
\* generator, reasoning or search call was made, and the cache and both logs
\* are as they were.
C5_CacheHitShortCircuit ==
    [][ LET r == run'[1]
        IN  /\ (run[1].pc = "searched" /\ run[1].reuse.hit /\ r.pc # "failed"
                   => r.pc = "done" /\ r.terminal = "REUSED")
            /\ (r.terminal = "REUSED" =>
                   /\ r.pc = "done"
                   /\ r.reuse.hit
                   /\ \E i \in 1..Len(store') :
                         /\ store'[i] = r.reuse.report
                         /\ <<"bug_report", r.state.bug_report>> \in store'[i].metadata
                   /\ counter_file'.reuse_count = r.counter_before.reuse_count + 1
                   /\ r.judge_calls = <<>> /\ r.gen_calls = <<>>
                   /\ r.react_calls = <<>> /\ r.search_calls = 0
                   /\ store' = r.store_before
                   /\ generated_reports' = r.generated_before
                   /\ stored_feedback' = r.stored_before)
      ]_vars

\* C5 witness: a case ended REUSED with a non-empty stored report
C5_Witness ==
    /\ run[1].pc = "done" /\ run[1].terminal = "REUSED"
    /\ run[1].state.bug_report = <<"r">> /\ run[1].verify_calls = 1

\* C6: the judge is called on candidates 0, 1, 2, ... of retrieved_list in
\* that order, a candidate judged relevant and sufficient is the last one
\* judged, the generator call that follows it has the context feedback +
\* that candidate, and before any reasoning call there is no other generator
\* call.
C6_LocalEvaluationOrder ==
    LET r   == run[1]
        suf == {k \in 1..Len(r.judge_calls) : JudgedSufficient(r.judge_calls[k])}
    IN  /\ Len(r.judge_calls) <= Len(r.retrieved_list)
        /\ \A k \in 1..Len(r.judge_calls) : r.judge_calls[k].idx = k - 1
        /\ suf \subseteq {Len(r.judge_calls)}
        /\ (suf = {} /\ r.react_calls = <<>> => r.gen_calls = <<>>)
        /\ (suf # {} =>
               /\ r.pc = "generate_local" <=> r.gen_calls = <<>>
               /\ r.gen_calls # <<>> =>
                     r.gen_calls[1] = r.user_feedback \o <<"\n", "\n">>
                                        \o r.retrieved_list[Len(r.judge_calls)]
               /\ r.react_calls = <<>> => Len(r.gen_calls) <= 1)

\* C6 witness: the first of two candidates was sufficient, the case ended
\* LOCAL_SUFFICIENT and the second candidate was never judged
C6_Witness ==
    /\ run[1].pc = "done" /\ run[1].terminal = "LOCAL_SUFFICIENT"
    /\ Len(run[1].retrieved_list) = 2 /\ Len(run[1].judge_calls) = 1
    /\ Len(run[1].gen_calls) = 1

\* C7: the reasoning oracle is called for a case only if no candidate of the
\* case was judged relevant and sufficient.
C7_EscalationGuard ==
    run[1].react_calls # <<>> =>
        \A k \in 1..Len(run[1].judge_calls) : ~JudgedSufficient(run[1].judge_calls[k])

\* the candidates judged relevant and not sufficient, in the order judged
RelevantOnly(r) ==
    LET picked == SelectSeq(r.judge_calls, JudgedRelevantOnly)
    IN  [k \in 1..Len(picked) |-> r.retrieved_list[picked[k].idx + 1]]

\* C8: when escalation starts, and in the arguments of every reasoning call,
\* collected is the sequence of the candidates judged relevant and not
\* sufficient in rank order; it has as many elements as retrieved_list when
\* every candidate was judged so.
C8_CollectedEvidence ==
    LET r == run[1]
    IN  /\ (r.pc = "react" =>
               /\ r.state.collected = RelevantOnly(r)
               /\ ((Len(r.judge_calls) = Len(r.retrieved_list)
                     /\ \A k \in 1..Len(r.judge_calls) : JudgedRelevantOnly(r.judge_calls[k]))
                   => Len(r.state.collected) = Len(r.retrieved_list)))
        /\ \A k \in 1..Len(r.react_calls) :
               /\ r.react_calls[k].collected = RelevantOnly(r)
               /\ r.react_calls[k].feedback = r.user_feedback

\* C8 witness: escalation starts with both candidates collected
C8_Witness ==
    /\ run[1].pc = "react" /\ Len(run[1].retrieved_list) = 2
    /\ run[1].state.collected = run[1].retrieved_list

\* C9: a case that ends in SEARCH_STORE or REASON_NONE has added exactly one
\* line, for its feedback, to the deferred-feedback log, has called the
\* generator never and has left the cache unchanged.
C9_DeferredLog ==
    LET r == run[1]
    IN  r.pc = "done" /\ r.terminal \in {"SEARCH_STORE", "REASON_NONE"} =>
            /\ Len(stored_feedback) = Len(r.stored_before) + 1
            /\ SubSeq(stored_feedback, 1, Len(r.stored_before)) = r.stored_before
            /\ stored_feedback[Len(stored_feedback)].feedback = r.user_feedback
            /\ r.gen_calls = <<>>
            /\ store = r.store_before

\* C10: a case that ends in LOCAL_SUFFICIENT, REASON_GENERATE or
\* SEARCH_GENERATE has its report as the newest cache entry, stored under the
\* case's feedback, and as the newest line {feedback, collected, decision,
\* bug_report} of the generated-report log; the entries and the lines added
\* during the case pair up, each pair holding the same feedback and report.
C10_ReportRecording ==
    LET r        == run[1]
        n_store  == Len(store) - Len(r.store_before)
        n_lines  == Len(generated_reports) - Len(r.generated_before)
    IN  r.pc = "done"
          /\ r.terminal \in {"LOCAL_SUFFICIENT", "REASON_GENERATE", "SEARCH_GENERATE"} =>
            /\ n_store >= 1 /\ n_store = n_lines
            /\ store[Len(store)].page_content = r.user_feedback
            /\ store[Len(store)].metadata = {<<"bug_report", r.state.bug_report>>}
            /\ generated_reports[Len(generated_reports)] =
                   [feedback |-> r.user_feedback, collected |-> r.state.collected,
                    decision |-> r.state.decision, bug_report |-> r.state.bug_report]
            /\ \A k \in 1..n_store :
                   LET e == store[Len(r.store_before) + k]
                       l == generated_reports[Len(r.generated_before) + k]
                   IN  /\ e.page_content = l.feedback
                       /\ e.metadata = {<<"bug_report", l.bug_report>>}

\* C10 witness: a case ended SEARCH_GENERATE with a non-empty report
C10_Witness ==
    /\ run[1].pc = "done" /\ run[1].terminal = "SEARCH_GENERATE"
    /\ run[1].state.bug_report = <<"r">>
    /\ Len(store) = Len(run[1].store_before) + 1


\* C11: when reasoning selects search and the search sub-pipeline judges the
\* search sufficient, the context the generator is invoked with contains the
\* feedback, every element of the collected evidence and the search summary
C11_SearchSynthesisContext ==
    \A w \in active :
        (run[w].terminal = "SEARCH_GENERATE" /\ Len(run[w].gen_calls) > 0) =>
            LET context == run[w].gen_calls[Len(run[w].gen_calls)]
            IN  /\ Contains(context, run[w].state.feedback)
                /\ \A i \in 1..Len(run[w].state.collected) :
                       Contains(context, run[w].state.collected[i])
                /\ Contains(context, run[w].search_summary)

\* a finished call search_reports(feedback, top_k, verify_llm=True)
VerifiedSearch ==
    probe.fn = "search_reports" /\ probe.returned /\ probe.verify_llm

\* the retrieved entries whose similarity reaches the threshold, nearest first
Qualifying ==
    filtered_of(converted(similarity_search_with_score(probe.store, probe.feedback, top_k)))

\* the entries of matched_indices that are integers i with 1 <= i <= number
\* of qualifying candidates
ValidIndices ==
    SelectSeq(probe.response.matched_indices,
              LAMBDA e : e[1] = "int" /\ 1 <= e[2] /\ e[2] <= Len(Qualifying))

\* C12: with verify=true search_reports returns None without asking the oracle
\* when no retrieved entry reaches the threshold; otherwise it returns a
\* decision only if the verdict parses, has reuse = true and names a valid
\* index, the returned entry being the qualifying candidate at the first valid
\* index of matched_indices; in every other case it returns None
C12_SearchEligibility ==
    VerifiedSearch =>
        /\ ~probe.out.raised
        /\ IF Len(Qualifying) = 0
           THEN ~probe.out.asked /\ probe.out.value = NoReuse
           ELSE IF /\ probe.response.kind = "dict"
                   /\ probe.response.reuse
                   /\ Len(ValidIndices) > 0
                THEN /\ probe.out.value.hit
                     /\ probe.out.value.report = Qualifying[ValidIndices[1][2]].doc
                ELSE probe.out.value = NoReuse

\* C13: the similarity of a decision returned with verify=true is the
\* retrieved similarity of the entry it returns, whatever its position among
\* the qualifying candidates
C13_DecisionSimilarity ==
    (VerifiedSearch /\ ~probe.out.raised /\ probe.out.value.hit) =>
        probe.out.value.similarity =
            100 - Min(Distance(probe.feedback, probe.out.value.report.page_content), 100)

\* the oracle failed: the call raised, the answer is not JSON, is JSON of
\* another shape than the object, or its matched_indices hold a non-integer
OracleFailed ==
    \/ probe.response.kind \in {"raise", "nonjson", "list"}
    \/ \E i \in 1..Len(probe.response.matched_indices) :
           probe.response.matched_indices[i][1] # "int"

\* C14: every failure of the verification oracle makes search_reports return
\* None; none raises out of search_reports
C14_OracleFailureDegrades ==
    (VerifiedSearch /\ Len(Qualifying) > 0 /\ OracleFailed) =>
        ~probe.out.raised /\ probe.out.value = NoReuse

NoIndexTwice ==
    \A i, j \in 1..Len(processed) : i # j => processed[i] # processed[j]

\* C15: in the __main__ loop an exception raised while processing a case does
\* not stop the loop (the next iteration can start), the next iteration takes
\* the index after the failed case, and no index is fetched twice
C15_LoopContinues ==
    /\ \A w \in active :
          run[w].pc = "failed" =>
              /\ loop_i < NumCases => ENABLED LoopIterate(w)
              /\ run[w].claimed => last_index + 1 = run[w].next_index + 1
    /\ \A w \in active :
          (run[w].pc = "begun" /\ run[w].prev_abandoned >= 0) =>
              run[w].next_index = run[w].prev_abandoned + 1
    /\ NoIndexTwice

\* a case failed after it was fetched and the next iteration has fetched the
\* next case
C15_Witness ==
    /\ run[1].pc = "claimed"
    /\ run[1].prev_abandoned = 0
    /\ run[1].next_index = 1
    /\ loop_i = 2

\* no oracle has been invoked by the call of main() worker w is in or has left
NoOracleInvoked(r) ==
    /\ r.verify_calls = 0
    /\ r.judge_calls = <<>>
    /\ r.gen_calls = <<>>
    /\ r.react_calls = <<>>
    /\ r.search_calls = 0

\* C16: when the progress record already points at the last case, a call of
\* main() changes nothing (progress file, counter file with its history,
\* cache, both logs) and invokes no oracle
C16_RepeatAfterCompletion ==
    [][\A w \in active :
         (/\ last_index + 1 >= NumCases
          /\ \/ run[w].pc \in Resting
             \/ run[w].pc = "begun" /\ run[w].next_index >= NumCases
          /\ run'[w] # run[w])
         => /\ Files' = Files
            /\ processed' = processed
            /\ run'[w].pc \in {"begun", "done", "failed"}
            /\ run'[w].next_index >= NumCases
            /\ ~run'[w].claimed
            /\ NoOracleInvoked(run'[w])]_vars

\* main() has been called and has returned after every case was fetched
C16_Witness ==
    /\ run[1].pc = "done"
    /\ ~run[1].claimed
    /\ run[1].next_index = NumCases
    /\ Len(processed) = NumCases

\* C17: with two workers running main() side by side, the read of last_index
\* and the write of last_index + 1 act as one atomic claim, so that no case
\* index is fetched by both workers
C17_NoDoubleClaim ==
    \A w1, w2 \in active :
        (w1 # w2 /\ run[w1].claimed /\ run[w2].claimed) =>
            run[w1].next_index # run[w2].next_index

\* C18: when two runs of main() on different cases interleave their
\* load_counters ... save_counters and both cases reach a terminal state (no
\* run failed), the persisted case_count and history reflect both cases
C18_NoLostUpdate ==
    (/\ active = Workers
     /\ \A w \in active : run[w].pc = "done" /\ run[w].terminal \in TerminalStates
     /\ run[1].next_index # run[2].next_index)
    => /\ counter_file.case_count = Cardinality(active)
       /\ \A w \in active :
             \E h \in 1..Len(counter_file.history) :
                 counter_file.history[h].case_count = run[w].counters.case_count
       /\ Len(counter_file.history) >= Cardinality(active)

\* the judge's answer is not an object with the fields relevant and sufficient
JudgeMalformed ==
    \/ probe.response.kind # "dict"
    \/ ~probe.response.has_relevant
    \/ ~probe.response.has_sufficient

\* C19: for every judge response that is not JSON, is not an object or lacks
\* relevant or sufficient, the candidate is treated as not relevant and not
\* sufficient, is not added to collected, and the loop goes on without raising
C19_JudgeMalformation ==
    (probe.fn = "evaluate_candidate" /\ probe.returned /\ JudgeMalformed) =>
        /\ probe.branch = "irrelevant"
        /\ probe.out.collected = probe.state.collected

\* comparisons of fractions with positive denominators
FracEq(a, b) == a.num * b.den = b.num * a.den

FracGeq(a, b) ==
    IF a.den = b.den THEN a.num >= b.num ELSE a.num * b.den >= b.num * a.den

Half == [num |-> 1, den |-> 2]

WeightsReturned == probe.fn = "adaptive_weights" /\ probe.returned

\* w1 + w2 = 1 and beta = beta_base * |s1 - s2| * 5
SumAndBeta ==
    /\ probe.out.w1.den = probe.out.w2.den
    /\ probe.out.w1.den > 0
    /\ probe.out.w1.num + probe.out.w2.num = probe.out.w1.den
    /\ FracEq(probe.out.beta,
              [num |-> probe.beta_base * abs(probe.s1 - probe.s2) * 5, den |-> 2 * SimSteps])

FusionWritten == probe.fn = "fusion" /\ probe.returned /\ probe.out.written

\* s < threshold_low for a similarity in 1/SimSteps
BelowThreshold(sim) == sim * 100 < THRESHOLD_LOW * SimSteps

\* C21: for every feedback the fusion outputs an escalation flag, true exactly
\* when s1 < threshold_low and s2 < threshold_low
C21_EscalationFlag ==
    FusionWritten =>
        /\ "escalation" \in DOMAIN probe.out.sample
        /\ probe.out.sample.escalation
               = (BelowThreshold(probe.out.s1) /\ BelowThreshold(probe.out.s2))

\* 1 - d for 0 <= d <= 1 and 0 for d > 1, in 1/SimSteps
Clamped(d) == IF d <= SimSteps THEN SimSteps - d ELSE 0

\* the peak of a tier's clamped similarities, 0 for an empty tier
ClampedPeak(results) ==
    IF Len(results) = 0 THEN 0
    ELSE max([i \in 1..Len(results) |-> Clamped(results[i].distance)])

\* the tier result a fused candidate came from
SourceOf(c) ==
    IF c.tier = 1 THEN probe.tier1.results[c.rank] ELSE probe.tier2.results[c.rank]

\* C22: every distance is converted to 1 - d when 0 <= d <= 1 and to 0 when
\* d > 1, so neither the peaks s1, s2 nor a fused score is negative
C22_SimilarityConversion ==
    FusionWritten =>
        /\ probe.out.s1 = ClampedPeak(probe.tier1.results)
        /\ probe.out.s2 = ClampedPeak(probe.tier2.results)
        /\ \A i \in 1..Len(probe.out.combined) :
              LET c == probe.out.combined[i]
                  w == IF c.tier = 1 THEN probe.out.sample.weights.w1
                       ELSE probe.out.sample.weights.w2
              IN  /\ c.score.num >= 0
                  /\ c.score.num = w.num * Clamped(SourceOf(c).distance)

\* C23: the fused list is in non-increasing order of fused score and holds at
\* most FINAL_TOP_N passages (those of the best-scored candidates); of two
\* candidates with equal score a tier-1 candidate comes before a tier-2 one and
\* candidates of one tier keep their rank; a second fusion of the same tier
\* outputs gives the same list
C23_FusionOrdering ==
    FusionWritten =>
        LET combined == probe.out.combined
            n        == Len(combined)
        IN  /\ n = Len(probe.tier1.results) + Len(probe.tier2.results)
            /\ \A i, j \in 1..n :
                  i < j =>
                    /\ combined[i].score.num >= combined[j].score.num
                    /\ <<combined[i].tier, combined[i].rank>>
                           # <<combined[j].tier, combined[j].rank>>
                    /\ combined[i].score.num = combined[j].score.num =>
                          \/ combined[i].tier < combined[j].tier
                          \/ /\ combined[i].tier = combined[j].tier
                             /\ combined[i].rank < combined[j].rank
            /\ \A i \in 1..n :
                  /\ combined[i].text = SourceOf(combined[i]).doc
                  /\ combined[i].score.den = combined[1].score.den
            /\ Len(probe.out.sample.retrieved_list) <= FINAL_TOP_N
            /\ probe.out.sample.retrieved_list
                   = [i \in 1..Min(FINAL_TOP_N, n) |-> strip(combined[i].text)]
            /\ probe.again = probe.out

\* more than FINAL_TOP_N candidates were fused, and a tier-1 and a tier-2
\* candidate with the same positive score stand next to each other
C23_Witness ==
    /\ FusionWritten
    /\ Len(probe.out.combined) > FINAL_TOP_N
    /\ \E i \in 1..(Len(probe.out.combined) - 1) :
          /\ probe.out.combined[i].tier = 1
          /\ probe.out.combined[i + 1].tier = 2
          /\ probe.out.combined[i].score.num = probe.out.combined[i + 1].score.num
          /\ probe.out.combined[i].score.num > 0

\* C24: the retrieved_list written for a feedback holds no passage text twice
C24_FusionDeduplication ==
    FusionWritten =>
        \A i, j \in 1..Len(probe.out.sample.retrieved_list) :
            i # j => probe.out.sample.retrieved_list[i] # probe.out.sample.retrieved_list[j]

\* C25: when the collection of one tier cannot be opened or queried, that tier
\* counts as empty with peak similarity 0 and the fusion still writes a record
\* for the feedback from the other tier
C25_TierUnavailability ==
    (/\ probe.fn = "fusion"
     /\ probe.returned
     /\ strip(probe.fb.summary) # EmptyStr
     /\ probe.tier1.status # "ok" \/ probe.tier2.status # "ok")
    => /\ ~probe.out.raised
       /\ probe.out.written
       /\ probe.tier1.status # "ok" => probe.out.s1 = 0
       /\ probe.tier2.status # "ok" => probe.out.s2 = 0
       /\ Len(probe.out.combined) = Len(probe.tier1.results) + Len(probe.tier2.results)

\* the calls of set_bug_report made for the case: one per generated report and
\* one for a reused report
SetBugReportCalls(r) ==
    Len(r.gen_calls) + (IF r.terminal = "REUSED" THEN 1 ELSE 0)

\* C26: over the processing of one case by main(), set_bug_report is called at
\* most once, the generator is invoked at most once and at most one cache
\* entry is added
C26_ReportSetOnce ==
    (run[1].claimed /\ run[1].pc # "failed") =>
        /\ SetBugReportCalls(run[1]) <= 1
        /\ Len(run[1].gen_calls) <= 1
        /\ Len(store) - Len(run[1].store_before) <= 1

\* s is t or an initial part of t
IsPrefix(s, t) == Len(s) <= Len(t) /\ \A i \in 1..Len(s) : s[i] = t[i]

\* the last snapshot of the counter file carries the file's top-level counts
LastSnapshotIsTotal(file) ==
    /\ file.history # <<>>
    /\ file.history[Len(file.history)].case_count = file.case_count
    /\ file.history[Len(file.history)].reuse_count = file.reuse_count

\* C27: every write of the counter file by sequential runs keeps the earlier
\* snapshots unchanged as a prefix and adds snapshots at the end only, so the
\* history never gets shorter, and the last snapshot's case_count and
\* reuse_count are the file's top-level counts
C27_HistoryAppendOnly ==
    [][counter_file' # counter_file =>
          /\ counter_file'.exists
          /\ IsPrefix(counter_file.history, counter_file'.history)
          /\ Len(counter_file'.history) > Len(counter_file.history)
          /\ LastSnapshotIsTotal(counter_file')]_vars

\* a later run has written the counter file again: the file holds the
\* snapshots of at least two cases
C27_Witness ==
    /\ counter_file.exists
    /\ counter_file.case_count >= 2
    /\ Len(counter_file.history) >= 2
    /\ run[1].pc = "done"

\* C29: a case that main() brought to a terminal state has appended exactly
\* one snapshot to the counter history, whichever terminal state it is, so
\* the history has as many snapshots as cases were completed
C29_OneSnapshotPerCase ==
    (run[1].pc = "done" /\ run[1].terminal \in TerminalStates) =>
        /\ Len(counter_file.history) = Len(run[1].counter_before.history) + 1
        /\ Len(counter_file.history) = counter_file.case_count

\* the reasoning call under study has returned
ReasoningReturned == probe.fn = "react_reasoning" /\ probe.returned

\* the action of the search judge's decision for the call's search outcome
SearchJudgeAction ==
    judge_relevance(probe.user_feedback, summarize_results(probe.outcome),
                    probe.outcome).action

\* C28: react_reasoning classifies the response by a case-insensitive scan: a
\* response containing "search" runs the search (even if it also contains
\* "generate") and returns generate if the search judge's action is exactly
\* "generate" and store otherwise; a response containing "generate" but not
\* "search" returns generate without a search; any other response returns
\* none; the action "search" is never returned
C28_ReasoningClassification ==
    ReasoningReturned =>
        LET has_search   == Contains(lower(probe.response), S_search)
            has_generate == Contains(lower(probe.response), S_generate)
        IN  /\ probe.searched <=> has_search
            /\ has_search =>
                  probe.out.action = IF SearchJudgeAction = S_generate
                                     THEN S_generate ELSE S_store
            /\ (~has_search /\ has_generate) => probe.out.action = S_generate
            /\ (~has_search /\ ~has_generate) => probe.out.action = S_none
            /\ probe.out.action # S_search

\* a response containing both words ran the search, whose judge did not say
\* exactly "generate", and store came back
C28_Witness ==
    /\ ReasoningReturned
    /\ Contains(lower(probe.response), S_search)
    /\ Contains(lower(probe.response), S_generate)
    /\ probe.searched
    /\ SearchJudgeAction # S_generate
    /\ probe.out.action = S_store

\* C30: add_report(feedback, bug_report, metadata) stores one new entry after
\* the existing ones, which stay as they were even when one has the same
\* feedback, and reading the new entry's bug_report as main() does on a reuse
\* hit gives the report that was added, with metadata omitted or supplied
C30_CacheRoundTrip ==
    (probe.fn = "add_report" /\ probe.returned) =>
        LET n == Len(probe.store)
        IN  /\ Len(probe.out) = n + 1
            /\ SubSeq(probe.out, 1, n) = probe.store
            /\ probe.out[n + 1].page_content = probe.feedback
            /\ dict_get(probe.out[n + 1].metadata, "bug_report", EmptyStr)
                   = probe.bug_report
====
